---- MODULE Spec2Model ----
(***************************************************************************)
(* Model of ethers-contract/src/factory.rs: ContractFactory::deploy, the   *)
(* Deployer builder (poll_interval, confirmations) and the asynchronous    *)
(* Deployer::send, which submits the deployment transaction and polls the  *)
(* client for its receipt.                                                  *)
(***************************************************************************)
EXTENDS Integers, Sequences, FiniteSets, TLC

VARIABLES factory, deployed, redeployed, d, twin, chain

vars == <<factory, deployed, redeployed, d, twin, chain>>

(***************************************************************************)
(* Bounds of the model.                                                    *)
(***************************************************************************)
\* most failed receipt queries the client answers in one run
MaxPolls == 2
\* most confirmations the chain gives the deployment transaction
MaxConfs == 2
\* longest constructor argument list
MaxArgs == 2
\* largest value passed to confirmations()
MaxConfirmations == 2

(***************************************************************************)
(* Program constants.                                                      *)
(***************************************************************************)
POLL_INTERVAL == 7000

\* width in bytes of one ABI-encoded static token
WordSize == 32

(***************************************************************************)
(* Data.                                                                   *)
(***************************************************************************)
None == "None"

Clients == {"client1", "client2"}

\* Abi::constructor(): None, or Some(constructor) with its input types
Abis ==
    { [has_constructor |-> FALSE, inputs |-> <<>>],
      [has_constructor |-> TRUE, inputs |-> <<>>],
      [has_constructor |-> TRUE, inputs |-> <<"uint256">>],
      [has_constructor |-> TRUE, inputs |-> <<"uint256", "bool">>] }

Bytecodes == { <<>>, <<170>>, <<187, 1>> }

Tokens == { [type |-> "uint256", val |-> 42], [type |-> "bool", val |-> 1] }

ArgLists == UNION { [1..n -> Tokens] : n \in 0..MaxArgs }

Intervals == {0, 10, POLL_INTERVAL}

Addresses == {"0x01", "0x02"}

Hashes == {"h1", "h2"}

(***************************************************************************)
(* ABI encoding of the constructor input (Constructor::encode_input).      *)
(***************************************************************************)
\* one static token: a 32-byte big-endian word
EncodeToken(t) == [i \in 1..WordSize |-> IF i = WordSize THEN t.val ELSE 0]

RECURSIVE EncodeTokens(_)
EncodeTokens(ts) ==
    IF ts = <<>> THEN <<>> ELSE EncodeToken(Head(ts)) \o EncodeTokens(Tail(ts))

TypeCheck(inputs, ts) ==
    /\ Len(inputs) = Len(ts)
    /\ \A i \in 1..Len(ts) : ts[i].type = inputs[i]

\* constructor.encode_input(bytecode, &params)
encode_input(inputs, bytecode, ts) ==
    IF TypeCheck(inputs, ts)
    THEN [ok |-> TRUE, bytes |-> bytecode \o EncodeTokens(ts)]
    ELSE [ok |-> FALSE, bytes |-> <<>>]

(***************************************************************************)
(* TransactionRequest and the Deployer.                                    *)
(***************************************************************************)
\* DeployTx addressed to the zero address instead of to nobody
DeployTx_ToZero(data) == [to |-> "0x00", data |-> data]

\* TransactionRequest { to: None, data: Some(data), ..Default::default() }
DeployTx(data) == [to |-> None, data |-> data]

\* no TransactionReceipt obtained yet
NoReceipt == [present |-> FALSE, contract_address |-> None, confirmations |-> 0]

\* the ABI of a placeholder: one without constructor
NoAbi == [has_constructor |-> FALSE, inputs |-> <<>>]

NoResult == [kind |-> "Pending", err |-> None, address |-> None,
             abi |-> NoAbi, client |-> None]

\* a Deployer together with the position of the task running its send()
MkDeployer(abi, client, tx, confs, interval) ==
    [ pc |-> "built", abi |-> abi, client |-> client, tx |-> tx,
      confs |-> confs, poll_interval |-> interval,
      tx_hash |-> None, submitted |-> <<>>, calls |-> <<>>, sleeps |-> <<>>,
      queried |-> <<>>, replies |-> <<>>, receipt |-> NoReceipt,
      outstanding |-> 0, result |-> NoResult ]

NoDeployer ==
    [ MkDeployer(NoAbi, None, DeployTx(<<>>), 0, 0) EXCEPT !.pc = "none" ]

\* ContractFactory::new
new(abi, bytecode, client) ==
    [client |-> client, abi |-> abi, bytecode |-> bytecode]

\* DeployData with the two arms of an ABI without constructor swapped
DeployData_SwappedArms(f, params) ==
    IF ~f.abi.has_constructor /\ params = <<>>
    THEN [ok |-> FALSE, err |-> "ConstructorError", data |-> <<>>]
    ELSE IF ~f.abi.has_constructor
    THEN [ok |-> TRUE, err |-> None, data |-> f.bytecode]
    ELSE LET e == encode_input(f.abi.inputs, f.bytecode, params)
         IN  IF e.ok
             THEN [ok |-> TRUE, err |-> None, data |-> e.bytes]
             ELSE [ok |-> FALSE, err |-> "EncodingError", data |-> <<>>]

\* DeployData that drops the arguments of an ABI without constructor
DeployData_IgnoreArgs(f, params) ==
    IF ~f.abi.has_constructor
    THEN [ok |-> TRUE, err |-> None, data |-> f.bytecode]
    ELSE LET e == encode_input(f.abi.inputs, f.bytecode, params)
         IN  IF e.ok
             THEN [ok |-> TRUE, err |-> None, data |-> e.bytes]
             ELSE [ok |-> FALSE, err |-> "EncodingError", data |-> <<>>]

\* DeployData that takes the bytecode as it is whenever no argument is given
DeployData_SkipEmptyArgs(f, params) ==
    IF ~f.abi.has_constructor /\ params # <<>>
    THEN [ok |-> FALSE, err |-> "ConstructorError", data |-> <<>>]
    ELSE IF params = <<>>
    THEN [ok |-> TRUE, err |-> None, data |-> f.bytecode]
    ELSE LET e == encode_input(f.abi.inputs, f.bytecode, params)
         IN  IF e.ok
             THEN [ok |-> TRUE, err |-> None, data |-> e.bytes]
             ELSE [ok |-> FALSE, err |-> "EncodingError", data |-> <<>>]

\* the data of the deployment transaction, or the error deploy() returns
DeployData(f, params) ==
    IF ~f.abi.has_constructor /\ params # <<>>
    THEN [ok |-> FALSE, err |-> "ConstructorError", data |-> <<>>]
    ELSE IF ~f.abi.has_constructor
    THEN [ok |-> TRUE, err |-> None, data |-> f.bytecode]
    ELSE LET e == encode_input(f.abi.inputs, f.bytecode, params)
         IN  IF e.ok
             THEN [ok |-> TRUE, err |-> None, data |-> e.bytes]
             ELSE [ok |-> FALSE, err |-> "EncodingError", data |-> <<>>]

\* deploy that defaults the number of confirmations to 0
deploy_ZeroConfs(f, params) ==
    LET r == DeployData(f, params)
    IN  IF r.ok
        THEN [ok |-> TRUE, err |-> None, params |-> params,
              deployer |-> MkDeployer(f.abi, f.client, DeployTx(r.data),
                                      0, POLL_INTERVAL)]
        ELSE [ok |-> FALSE, err |-> r.err, params |-> params,
              deployer |-> NoDeployer]

\* ContractFactory::deploy
deploy(f, params) ==
    LET r == DeployData(f, params)
    IN  IF r.ok
        THEN [ok |-> TRUE, err |-> None, params |-> params,
              deployer |-> MkDeployer(f.abi, f.client, DeployTx(r.data),
                                      1, POLL_INTERVAL)]
        ELSE [ok |-> FALSE, err |-> r.err, params |-> params,
              deployer |-> NoDeployer]

\* deploy that moves the bytecode out of the factory
deploy_self_TakeBytecode(f, params) == [f EXCEPT !.bytecode = <<>>]

\* deploy(&self, ..): the factory after the call; it is only borrowed
deploy_self(f, params) == f

\* poll_interval that rebuilds the Deployer with the default confirmations
poll_interval_Rebuild(self, interval) ==
    [self EXCEPT !.poll_interval = interval, !.confs = 1]

\* Deployer::poll_interval
poll_interval(self, interval) == [self EXCEPT !.poll_interval = interval]

\* confirmations that rebuilds the Deployer around a default transaction
confirmations_ResetTx(self, n) ==
    [self EXCEPT !.confs = n, !.tx = DeployTx(<<>>)]

\* Deployer::confirmations
confirmations(self, n) == [self EXCEPT !.confs = n]

(***************************************************************************)
(* The client (external): what send_transaction and                         *)
(* get_transaction_receipt may answer.  chain is the ledger behind it: the *)
(* hash of the submitted transaction, how many confirmations it has (0:    *)
(* not mined), the address it created (None: it created no contract) and   *)
(* how many receipt queries have failed so far.                            *)
(***************************************************************************)
EmptyChain == [submitted |-> FALSE, hash |-> None, confs |-> 0,
               creates |-> None, fails |-> 0]

\* client.send_transaction(tx, None): Ok(tx_hash) or Err
SubmitResponses ==
    { [ok |-> TRUE, hash |-> h] : h \in Hashes } \cup { [ok |-> FALSE, hash |-> None] }

\* client.get_transaction_receipt(hash): Err (a query error, or no receipt
\* yet), or Ok(receipt) once the transaction with that hash is mined
ReceiptResponses(c, hash) ==
    ( IF c.fails < MaxPolls
      THEN { [ok |-> FALSE, kind |-> k, contract_address |-> None, confirmations |-> 0]
             : k \in {"QueryError", "NoReceipt"} }
      ELSE {} )
    \cup
    ( IF c.submitted /\ c.hash = hash /\ c.confs >= 1
      THEN { [ok |-> TRUE, kind |-> "Receipt", contract_address |-> c.creates,
              confirmations |-> c.confs] }
      ELSE {} )

(***************************************************************************)
(* Deployer::send, one step per suspension point of the task.              *)
(***************************************************************************)
\* Contract::new that binds the handle to the zero address
ContractNew_ZeroAddress(address, abi, client) ==
    [kind |-> "Contract", err |-> None, address |-> "0x00",
     abi |-> abi, client |-> client]

\* Contract::new(address, self.abi, self.client)
ContractNew(address, abi, client) ==
    [kind |-> "Contract", err |-> None, address |-> address,
     abi |-> abi, client |-> client]

Err(e) == [NoResult EXCEPT !.kind = "Err", !.err = e]

\* self.client.send_transaction(self.tx, None) is issued
send_transaction_call(self) ==
    [self EXCEPT !.pc = "await_submit",
                 !.calls = Append(@, "send_transaction"),
                 !.submitted = Append(@, self.tx),
                 !.outstanding = @ + 1]

\* send_transaction_return that goes on to poll after a failed submission
send_transaction_return_IgnoreErr(self, resp) ==
    [self EXCEPT !.pc = "loop", !.tx_hash = resp.hash, !.outstanding = @ - 1]

\* .await? on the submission: the hash, or the error returned at once
send_transaction_return(self, resp) ==
    IF resp.ok
    THEN [self EXCEPT !.pc = "loop", !.tx_hash = resp.hash, !.outstanding = @ - 1]
    ELSE [self EXCEPT !.pc = "done", !.outstanding = @ - 1,
                      !.result = Err("ClientError")]

\* self.client.get_transaction_receipt(tx_hash) is issued
get_transaction_receipt_call(self) ==
    [self EXCEPT !.pc = "await_receipt",
                 !.calls = Append(@, "get_transaction_receipt"),
                 !.queried = Append(@, self.tx_hash),
                 !.outstanding = @ + 1]

\* Ok(receipt): the receipt is in hand and the loop is left
WithReceipt(self, resp) ==
    [self EXCEPT !.replies = Append(@, resp.kind), !.outstanding = @ - 1,
                 !.pc = "done",
                 !.receipt = [present |-> TRUE,
                              contract_address |-> resp.contract_address,
                              confirmations |-> resp.confirmations]]

\* Retry that leaves the failed query in flight
Retry_Overlap(self, resp) ==
    [self EXCEPT !.replies = Append(@, resp.kind), !.pc = "delay"]

\* Err(_): the `if let` does not match, the loop body goes on to the delay
Retry(self, resp) ==
    [self EXCEPT !.replies = Append(@, resp.kind), !.outstanding = @ - 1,
                 !.pc = "delay"]

\* get_transaction_receipt_return without the break: it keeps polling
get_transaction_receipt_return_NoBreak(self, resp) ==
    IF resp.ok /\ resp.contract_address = None
    THEN [WithReceipt(self, resp) EXCEPT !.result = Err("ContractNotDeployed")]
    ELSE Retry(self, resp)

\* get_transaction_receipt_return that waits for self.confs confirmations
get_transaction_receipt_return_AwaitConfs(self, resp) ==
    IF resp.ok /\ resp.confirmations >= self.confs
    THEN IF resp.contract_address = None
         THEN [WithReceipt(self, resp) EXCEPT !.result = Err("ContractNotDeployed")]
         ELSE [WithReceipt(self, resp) EXCEPT !.result =
                  ContractNew(resp.contract_address, self.abi, self.client)]
    ELSE Retry(self, resp)

\* get_transaction_receipt_return that polls again on a receipt without address
get_transaction_receipt_return_RetryNoAddress(self, resp) ==
    IF resp.ok /\ resp.contract_address # None
    THEN [WithReceipt(self, resp) EXCEPT !.result =
             ContractNew(resp.contract_address, self.abi, self.client)]
    ELSE Retry(self, resp)

\* get_transaction_receipt_return with `?` on the query: its error is returned
get_transaction_receipt_return_Surface(self, resp) ==
    IF resp.ok
    THEN IF resp.contract_address = None
         THEN [WithReceipt(self, resp) EXCEPT !.result = Err("ContractNotDeployed")]
         ELSE [WithReceipt(self, resp) EXCEPT !.result =
                  ContractNew(resp.contract_address, self.abi, self.client)]
    ELSE [Retry(self, resp) EXCEPT !.pc = "done", !.result = Err("ClientError")]

\* if let Ok(receipt) = ... { address = receipt.contract_address.ok_or(..)?; break }
get_transaction_receipt_return(self, resp) ==
    IF resp.ok
    THEN IF resp.contract_address = None
         THEN [WithReceipt(self, resp) EXCEPT !.result = Err("ContractNotDeployed")]
         ELSE [WithReceipt(self, resp) EXCEPT !.result =
                  ContractNew(resp.contract_address, self.abi, self.client)]
    ELSE Retry(self, resp)

\* the duration send() sleeps between two polls
DelayDuration(self) == POLL_INTERVAL

\* time::delay_for(Duration::from_millis(POLL_INTERVAL)) is started
delay_for_call(self) ==
    [self EXCEPT !.pc = "await_delay",
                 !.calls = Append(@, "delay_for"),
                 !.sleeps = Append(@, DelayDuration(self))]

\* delay_for_return that never gets back to the loop
delay_for_return_Hang(self) == self

\* delay_for_return that starts send() over, submitting again
delay_for_return_Resubmit(self) == [self EXCEPT !.pc = "built"]

\* .await on the delay: back to the head of the loop
delay_for_return(self) == [self EXCEPT !.pc = "loop"]

(***************************************************************************)
(* Actions.                                                                *)
(***************************************************************************)
\* deploy() has not been called
NotDeployed ==
    [called |-> FALSE,
     res |-> [ok |-> FALSE, err |-> None, params |-> <<>>, deployer |-> NoDeployer]]

Init ==
    /\ factory \in { new(a, b, c) : a \in Abis, b \in Bytecodes, c \in Clients }
    /\ deployed = NotDeployed
    /\ redeployed = NotDeployed
    /\ d = NoDeployer
    /\ twin = NoDeployer
    /\ chain = EmptyChain

Deploy ==
    /\ ~deployed.called
    /\ \E params \in ArgLists :
          LET r == deploy(factory, params)
          IN  /\ deployed' = [called |-> TRUE, res |-> r]
              /\ d' = r.deployer
              /\ factory' = deploy_self(factory, params)
    /\ UNCHANGED <<redeployed, twin, chain>>

\* deploy() is called a second time, with the arguments of the first call
Redeploy ==
    /\ deployed.called
    /\ ~redeployed.called
    /\ redeployed' = [called |-> TRUE, res |-> deploy(factory, deployed.res.params)]
    /\ factory' = deploy_self(factory, deployed.res.params)
    /\ UNCHANGED <<deployed, d, twin, chain>>

PollInterval ==
    /\ d.pc = "built"
    /\ \E t \in Intervals : d' = poll_interval(d, t)
    /\ UNCHANGED <<factory, deployed, redeployed, twin, chain>>

Confirmations ==
    /\ d.pc = "built"
    /\ \E n \in 0..MaxConfirmations : d' = confirmations(d, n)
    /\ UNCHANGED <<factory, deployed, redeployed, twin, chain>>

Send ==
    /\ d.pc = "built"
    /\ d' = send_transaction_call(d)
    /\ UNCHANGED <<factory, deployed, redeployed, twin, chain>>

\* the ledger accepts the transaction under the hash the client answers
Accept(c, resp) ==
    IF resp.ok THEN [c EXCEPT !.submitted = TRUE, !.hash = resp.hash] ELSE c

SubmitReturn ==
    /\ d.pc = "await_submit"
    /\ \E resp \in SubmitResponses :
          /\ d' = send_transaction_return(d, resp)
          /\ chain' = Accept(chain, resp)
    /\ UNCHANGED <<factory, deployed, redeployed, twin>>

Poll ==
    /\ d.pc = "loop"
    /\ d' = get_transaction_receipt_call(d)
    /\ UNCHANGED <<factory, deployed, redeployed, twin, chain>>

\* the ledger counts the queries it failed
Answered(c, resp) == IF resp.ok THEN c ELSE [c EXCEPT !.fails = @ + 1]

PollReturn ==
    /\ d.pc = "await_receipt"
    /\ \E resp \in ReceiptResponses(chain, d.queried[Len(d.queried)]) :
          /\ d' = get_transaction_receipt_return(d, resp)
          /\ chain' = Answered(chain, resp)
    /\ UNCHANGED <<factory, deployed, redeployed, twin>>

Delay ==
    /\ d.pc = "delay"
    /\ d' = delay_for_call(d)
    /\ UNCHANGED <<factory, deployed, redeployed, twin, chain>>

DelayReturn ==
    /\ d.pc = "await_delay"
    /\ d' = delay_for_return(d)
    /\ UNCHANGED <<factory, deployed, redeployed, twin, chain>>

\* a block is mined: the first one includes the transaction, the next ones
\* bury it one confirmation deeper
MineBlock ==
    /\ chain.submitted
    /\ chain.confs < MaxConfs
    /\ IF chain.confs = 0
       THEN \E a \in Addresses \cup {None} :
               chain' = [chain EXCEPT !.confs = 1, !.creates = a]
       ELSE chain' = [chain EXCEPT !.confs = @ + 1]
    /\ UNCHANGED <<factory, deployed, redeployed, d, twin>>

Next ==
    \/ Deploy
    \/ Redeploy
    \/ PollInterval
    \/ Confirmations
    \/ Send
    \/ SubmitReturn
    \/ Poll
    \/ PollReturn
    \/ Delay
    \/ DelayReturn
    \/ MineBlock

Spec == Init /\ [][Next]_vars

(***************************************************************************)
(* Two Deployers against one client.  d and twin are built by the same     *)
(* deploy() call and get the same poll_interval() calls, but each its own  *)
(* confirmations() calls; then both run send(), and the client gives the   *)
(* n-th request of the one the answer it gives the n-th request of the     *)
(* other.                                                                  *)
(***************************************************************************)
\* the step `next` of a task that is at `pc`; a task elsewhere stays put
At(self, pc, next) == IF self.pc = pc THEN next ELSE self

PairDeploy ==
    /\ ~deployed.called
    /\ \E params \in ArgLists :
          LET r == deploy(factory, params)
          IN  /\ deployed' = [called |-> TRUE, res |-> r]
              /\ d' = r.deployer
              /\ twin' = r.deployer
    /\ UNCHANGED <<factory, redeployed, chain>>

PairPollInterval ==
    /\ d.pc = "built"
    /\ \E t \in Intervals :
          /\ d' = poll_interval(d, t)
          /\ twin' = At(twin, "built", poll_interval(twin, t))
    /\ UNCHANGED <<factory, deployed, redeployed, chain>>

PairConfirmations ==
    /\ d.pc = "built"
    /\ \E n, m \in 0..MaxConfirmations :
          /\ d' = confirmations(d, n)
          /\ twin' = At(twin, "built", confirmations(twin, m))
    /\ UNCHANGED <<factory, deployed, redeployed, chain>>

PairSend ==
    /\ d.pc = "built"
    /\ d' = send_transaction_call(d)
    /\ twin' = At(twin, "built", send_transaction_call(twin))
    /\ UNCHANGED <<factory, deployed, redeployed, chain>>

PairSubmitReturn ==
    /\ d.pc = "await_submit"
    /\ \E resp \in SubmitResponses :
          /\ d' = send_transaction_return(d, resp)
          /\ twin' = At(twin, "await_submit", send_transaction_return(twin, resp))
          /\ chain' = Accept(chain, resp)
    /\ UNCHANGED <<factory, deployed, redeployed>>

PairPoll ==
    /\ d.pc = "loop"
    /\ d' = get_transaction_receipt_call(d)
    /\ twin' = At(twin, "loop", get_transaction_receipt_call(twin))
    /\ UNCHANGED <<factory, deployed, redeployed, chain>>

PairPollReturn ==
    /\ d.pc = "await_receipt"
    /\ \E resp \in ReceiptResponses(chain, d.queried[Len(d.queried)]) :
          /\ d' = get_transaction_receipt_return(d, resp)
          /\ twin' = At(twin, "await_receipt", get_transaction_receipt_return(twin, resp))
          /\ chain' = Answered(chain, resp)
    /\ UNCHANGED <<factory, deployed, redeployed>>

PairDelay ==
    /\ d.pc = "delay"
    /\ d' = delay_for_call(d)
    /\ twin' = At(twin, "delay", delay_for_call(twin))
    /\ UNCHANGED <<factory, deployed, redeployed, chain>>

PairDelayReturn ==
    /\ d.pc = "await_delay"
    /\ d' = delay_for_return(d)
    /\ twin' = At(twin, "await_delay", delay_for_return(twin))
    /\ UNCHANGED <<factory, deployed, redeployed, chain>>

PairNext ==
    \/ PairDeploy
    \/ PairPollInterval
    \/ PairConfirmations
    \/ PairSend
    \/ PairSubmitReturn
    \/ PairPoll
    \/ PairPollReturn
    \/ PairDelay
    \/ PairDelayReturn
    \/ MineBlock

SpecPair == Init /\ [][PairNext]_vars

(***************************************************************************)
(* The task of send() scheduled fairly: the executor resumes it whenever a *)
(* request or a delay has completed; and a client that answers: the chain  *)
(* goes on mining, and the client fails at most MaxPolls receipt queries.  *)
(***************************************************************************)
Fairness ==
    /\ WF_vars(SubmitReturn)
    /\ WF_vars(Poll)
    /\ WF_vars(PollReturn)
    /\ WF_vars(Delay)
    /\ WF_vars(DelayReturn)
    /\ WF_vars(MineBlock)

\* send() reads neither the bytecode nor which client it holds: one of each
InitFair ==
    /\ Init
    /\ factory.client = "client1"
    /\ factory.bytecode = <<170>>

\* one deploy() call and the send() of its Deployer
NextFair ==
    \/ Deploy
    \/ PollInterval
    \/ Confirmations
    \/ Send
    \/ SubmitReturn
    \/ Poll
    \/ PollReturn
    \/ Delay
    \/ DelayReturn
    \/ MineBlock

SpecFair == InitFair /\ [][NextFair]_vars /\ Fairness

(***************************************************************************)
(* Properties.                                                             *)
(***************************************************************************)
Last(s) == s[Len(s)]

\* the receipt queries of task r that the client failed
FailedPolls(r) ==
    Cardinality({ i \in 1..Len(r.replies) : r.replies[i] # "Receipt" })

\* k rounds of a receipt query followed by a sleep
RECURSIVE PollRounds(_)
PollRounds(k) ==
    IF k = 0 THEN <<>>
    ELSE <<"get_transaction_receipt", "delay_for">> \o PollRounds(k - 1)

\* the requests of a send() that ends on its (k+1)-th receipt query
CallsEndingAfter(k) ==
    <<"send_transaction">> \o PollRounds(k) \o <<"get_transaction_receipt">>

\* the client has answered a receipt query of d with a receipt
GotReceipt == d.replies # <<>> /\ Last(d.replies) = "Receipt"

Succeeded(r) == r.pc = "done" /\ r.result.kind = "Contract"

\* C1: when the client fails the first K receipt queries and answers query
\* K+1 with a receipt that carries a contract address, send() has made
\* exactly K+1 queries and K sleeps, one after each failed query and none
\* before the first or after the last query, and returns a contract handle
\* at the address of that receipt.
C1_PollsUntilReceipt ==
    (GotReceipt /\ chain.creates # None) =>
        LET k == FailedPolls(d)
        IN  /\ Succeeded(d)
            /\ Len(d.replies) = k + 1
            /\ Len(d.queried) = k + 1
            /\ Len(d.sleeps) = k
            /\ d.calls = CallsEndingAfter(k)
            /\ d.result.address = chain.creates

C1_Witness ==
    /\ Succeeded(d)
    /\ d.replies = <<"NoReceipt", "NoReceipt", "Receipt">>
    /\ Len(d.sleeps) = 2
    /\ d.result.address = "0x01"

\* C2: every sleep of send() lasts the poll interval the Deployer holds when
\* send() is called (7000 ms, or the value of the last poll_interval() call).
C2_SleepsHeldInterval ==
    \A i \in 1..Len(d.sleeps) : d.sleeps[i] = d.poll_interval

\* C3: send() returns a Contract only once the transaction has the number of
\* confirmations set by confirmations(n).
C3_WaitsForConfirmations ==
    Succeeded(d) => d.receipt.confirmations >= d.confs

\* what a caller and the client see of task r
Observable(r) ==
    [ pc |-> r.pc, submitted |-> r.submitted, calls |-> r.calls,
      queried |-> r.queried, sleeps |-> r.sleeps, replies |-> r.replies,
      tx_hash |-> r.tx_hash, outstanding |-> r.outstanding,
      kind |-> r.result.kind, err |-> r.result.err,
      address |-> r.result.address, result_client |-> r.result.client ]

C5_NotDeployed ==
    (GotReceipt /\ chain.creates = None) =>
        LET k == FailedPolls(d)
        IN  /\ d.pc = "done"
            /\ d.result.kind = "Err"
            /\ d.result.err = "ContractNotDeployed"
            /\ d.result.address = None
            /\ d.calls = CallsEndingAfter(k)
            /\ Len(d.queried) = k + 1
            /\ Len(d.sleeps) = k

C5_Witness ==
    /\ d.pc = "done"
    /\ d.result.err = "ContractNotDeployed"
    /\ d.replies = <<"QueryError", "NoReceipt", "Receipt">>

\* C6: a failed receipt query (an error, or no receipt yet) is never
\* returned to the caller: send() sleeps and queries again after each one,
\* and the only errors it returns are the submission error and
\* ContractNotDeployed.
C6_TransientNeverSurfaced ==
    /\ d.result.kind = "Err" =>
          \/ d.result.err = "ClientError" /\ d.queried = <<>> /\ d.replies = <<>>
          \/ d.result.err = "ContractNotDeployed" /\ GotReceipt
    /\ (d.replies # <<>> /\ Last(d.replies) # "Receipt") =>
          /\ d.result.kind = "Pending"
          /\ d.pc \in {"delay", "await_delay", "loop", "await_receipt"}
          /\ d.pc = "delay" <=> Len(d.sleeps) = FailedPolls(d) - 1
          /\ d.pc # "delay" => Len(d.sleeps) = FailedPolls(d)
          /\ d.pc = "await_receipt" <=> Len(d.queried) = FailedPolls(d) + 1
    /\ \A i \in 1..Len(d.replies) - 1 :
          /\ d.replies[i] # "Receipt"
          /\ d.calls[2 * i] = "get_transaction_receipt"
          /\ d.calls[2 * i + 1] = "delay_for"
          /\ d.calls[2 * i + 2] = "get_transaction_receipt"

C6_Witness ==
    /\ d.pc = "await_receipt"
    /\ FailedPolls(d) = MaxPolls
    /\ d.replies[1] = "QueryError"
    /\ Len(d.queried) = MaxPolls + 1

\* the client has answered the submission of d with an error
SubmissionFailed ==
    /\ d.calls # <<>>
    /\ d.pc # "await_submit"
    /\ ~chain.submitted

\* C7: a failed submission makes send() return that error at once: no
\* receipt query, no sleep, no second submission, no contract handle.
C7_SubmissionErrorImmediate ==
    SubmissionFailed =>
        /\ d.pc = "done"
        /\ d.result.kind = "Err"
        /\ d.result.err = "ClientError"
        /\ d.calls = <<"send_transaction">>
        /\ Len(d.submitted) = 1
        /\ d.queried = <<>>
        /\ d.sleeps = <<>>

C7_Witness ==
    /\ SubmissionFailed
    /\ d.pc = "done"
    /\ d.result.err = "ClientError"

\* C8: send() ends with an error or with a contract handle and nothing in
\* between; a handle exists only after a receipt with a contract address,
\* it has that address, and its ABI and client are those of the Deployer.
C8_NoPartialSuccess ==
    /\ d.pc = "done" <=> d.result.kind \in {"Err", "Contract"}
    /\ d.pc # "done" => d.result.address = None /\ d.result.err = None
    /\ d.result.kind = "Err" => d.result.address = None /\ d.result.err # None
    /\ d.result.kind = "Contract" =>
          /\ GotReceipt
          /\ d.receipt.present
          /\ d.receipt.contract_address # None
          /\ d.result.address = d.receipt.contract_address
          /\ d.result.address = chain.creates
          /\ d.result.err = None
          /\ d.result.abi = deployed.res.deployer.abi
          /\ d.result.client = deployed.res.deployer.client
          /\ d.result.abi = factory.abi
          /\ d.result.client = factory.client

C8_Witness ==
    /\ Succeeded(d)
    /\ d.result.address = "0x02"
    /\ d.result.client = "client2"
    /\ d.result.abi.inputs = <<"uint256", "bool">>

\* C9: with an ABI without constructor and an empty argument list, deploy()
\* succeeds and the payload of the transaction is the bytecode, unmodified.
C9_NoConstructorNoArgs ==
    (deployed.called /\ ~factory.abi.has_constructor /\ deployed.res.params = <<>>) =>
        /\ deployed.res.ok
        /\ deployed.res.deployer.pc = "built"
        /\ deployed.res.deployer.tx.data = factory.bytecode

C9_Witness ==
    /\ deployed.called
    /\ ~factory.abi.has_constructor
    /\ deployed.res.params = <<>>
    /\ deployed.res.deployer.tx.data = <<187, 1>>

\* C10: with an ABI without constructor and a non-empty argument list,
\* deploy() fails with the constructor error, returns no Deployer, and no
\* submission or receipt query is made.
C10_ConstructorMismatch ==
    (deployed.called /\ ~factory.abi.has_constructor /\ deployed.res.params # <<>>) =>
        /\ ~deployed.res.ok
        /\ deployed.res.err = "ConstructorError"
        /\ deployed.res.deployer = NoDeployer
        /\ d = NoDeployer
        /\ d.calls = <<>>
        /\ chain = EmptyChain

C10_Witness ==
    /\ deployed.called
    /\ ~factory.abi.has_constructor
    /\ Len(deployed.res.params) = 2
    /\ deployed.res.err = "ConstructorError"

\* the first deploy() call has returned a Deployer
Deployed == deployed.called /\ deployed.res.ok

\* C11: with an ABI that has a constructor, deploy() yields the payload
\* bytecode ++ encode(constructor, tokens) when the arguments, empty or not,
\* encode against the constructor, and the encoding error and no Deployer
\* when they do not.
C11_ConstructorEncodes ==
    (deployed.called /\ factory.abi.has_constructor) =>
        LET ts == deployed.res.params
        IN  IF TypeCheck(factory.abi.inputs, ts)
            THEN /\ deployed.res.ok
                 /\ deployed.res.deployer.pc = "built"
                 /\ deployed.res.deployer.tx.data = factory.bytecode \o EncodeTokens(ts)
                 /\ Len(deployed.res.deployer.tx.data) =
                        Len(factory.bytecode) + WordSize * Len(ts)
            ELSE /\ ~deployed.res.ok
                 /\ deployed.res.err = "EncodingError"
                 /\ deployed.res.deployer.pc = "none"
                 /\ d.pc = "none"

\* a constructor with one parameter called without arguments fails to encode
C11_Witness ==
    /\ deployed.called
    /\ factory.abi.inputs = <<"uint256">>
    /\ deployed.res.params = <<>>
    /\ deployed.res.err = "EncodingError"

\* C12: the recipient of the deployment transaction is absent: in the
\* Deployer that deploy() returns, after any poll_interval() and
\* confirmations() calls, and in the transaction send() submits.
C12_RecipientAbsent ==
    /\ Deployed => deployed.res.deployer.tx.to = None
    /\ d.pc # "none" => d.tx.to = None
    /\ \A i \in 1..Len(d.submitted) : d.submitted[i].to = None

C12_Witness ==
    /\ d.submitted # <<>>
    /\ d.confs = 0
    /\ d.poll_interval = 10
    /\ d.submitted[1].to = None

\* C13: a Deployer returned by deploy() has confirmations = 1 and
\* poll_interval = 7000 ms, and confirmations() and poll_interval() replace
\* them before send().
C13_Defaults ==
    /\ Deployed =>
          /\ deployed.res.deployer.confs = 1
          /\ deployed.res.deployer.poll_interval = 7000
          /\ deployed.res.deployer.pc = "built"
    /\ d.pc = "built" =>
          /\ \A t \in Intervals : poll_interval(d, t).poll_interval = t
          /\ \A n \in 0..MaxConfirmations : confirmations(d, n).confs = n

C13_Witness ==
    /\ Deployed
    /\ deployed.res.deployer.confs = 1
    /\ deployed.res.deployer.poll_interval = 7000
    /\ d.pc = "built"
    /\ d.confs = 2
    /\ d.poll_interval = 0

\* the fields of a Deployer
Config(r) ==
    [abi |-> r.abi, client |-> r.client, tx |-> r.tx, confs |-> r.confs,
     poll_interval |-> r.poll_interval]

\* C14: poll_interval(t) then confirmations(n) gives the same Deployer as
\* confirmations(n) then poll_interval(t).
C14_BuilderCommutes ==
    d.pc = "built" =>
        \A t \in Intervals, n \in 0..MaxConfirmations :
            /\ Config(confirmations(poll_interval(d, t), n))
                  = Config(poll_interval(confirmations(d, n), t))
            /\ Config(confirmations(poll_interval(d, t), n))
                  = [Config(d) EXCEPT !.confs = n, !.poll_interval = t]

C14_Witness ==
    /\ d.pc = "built"
    /\ d.confs = 2
    /\ d.poll_interval = 10
    /\ Len(d.tx.data) > WordSize

\* C16: in one send() the submission has returned before the first receipt
\* query is issued, each receipt query has returned before the next is
\* issued, and at most one request to the client is outstanding.
C16_OneRequestAtATime ==
    /\ d.outstanding \in {0, 1}
    /\ d.outstanding = 1 <=> d.pc \in {"await_submit", "await_receipt"}
    /\ d.queried # <<>> =>
          /\ d.pc # "await_submit"
          /\ d.tx_hash # None
          /\ d.calls[1] = "send_transaction"
    /\ Len(d.queried) =
          Len(d.replies) + (IF d.pc = "await_receipt" THEN 1 ELSE 0)

C16_Witness ==
    /\ d.pc = "await_receipt"
    /\ d.outstanding = 1
    /\ Len(d.queried) = 3
    /\ Len(d.replies) = 2

\* how often op occurs in the requests of task r
Count(r, op) == Cardinality({ i \in 1..Len(r.calls) : r.calls[i] = op })

\* C18: a send() submits the transaction exactly once, however many polls
\* follow, and every receipt query asks for the hash that submission
\* returned.
C18_SubmittedOnce ==
    /\ Len(d.submitted) = (IF d.pc \in {"none", "built"} THEN 0 ELSE 1)
    /\ Count(d, "send_transaction") = Len(d.submitted)
    /\ \A i \in 1..Len(d.queried) :
          /\ chain.submitted
          /\ d.queried[i] = chain.hash
          /\ d.queried[i] = d.tx_hash

C18_Witness ==
    /\ Len(d.queried) = 3
    /\ Len(d.submitted) = 1
    /\ d.queried = <<"h2", "h2", "h2">>
    /\ d.pc = "done"

\* C19: poll_interval(t) changes only poll_interval and confirmations(n) only
\* confs, so the transaction send() submits is the one deploy() built,
\* whatever configuration calls came in between.
C19_ConfigFrame ==
    /\ d.pc = "built" =>
          /\ \A t \in Intervals :
                poll_interval(d, t) = [d EXCEPT !.poll_interval = t]
          /\ \A n \in 0..MaxConfirmations :
                confirmations(d, n) = [d EXCEPT !.confs = n]
    /\ d.pc # "none" =>
          /\ d.tx = deployed.res.deployer.tx
          /\ d.abi = deployed.res.deployer.abi
          /\ d.client = deployed.res.deployer.client
    /\ \A i \in 1..Len(d.submitted) : d.submitted[i] = deployed.res.deployer.tx

C19_Witness ==
    /\ d.submitted # <<>>
    /\ d.confs = 2
    /\ d.poll_interval = 0
    /\ d.submitted[1] = deployed.res.deployer.tx
    /\ Len(d.submitted[1].data) = 2 + 2 * WordSize

\* the result of a deploy() call as the caller sees it
Outcome(r) ==
    [ok |-> r.ok, err |-> r.err, tx |-> r.deployer.tx,
     confs |-> r.deployer.confs, poll_interval |-> r.deployer.poll_interval,
     client |-> r.deployer.client, pc |-> r.deployer.pc]

\* a step in which a deploy() call returns
DeployReturns == deployed' # deployed \/ redeployed' # redeployed

\* C15: deploy() submits nothing and queries nothing, whether it succeeds or
\* fails, leaves the factory's ABI, bytecode and client as they are, and
\* called again with the same arguments yields the same payload and the same
\* Deployer configuration.
C15_DeployPure ==
    /\ [][factory' = factory]_vars
    /\ [][DeployReturns => chain' = chain /\ d'.calls = d.calls
                              /\ d'.submitted = d.submitted
                              /\ d'.queried = d.queried]_vars
    /\ [](d.pc \in {"none", "built"} => d.calls = <<>> /\ chain = EmptyChain)
    /\ [](redeployed.called => Outcome(redeployed.res) = Outcome(deployed.res))

C15_Witness ==
    /\ redeployed.called
    /\ redeployed.res.ok
    /\ redeployed.res.deployer.tx.data = <<187, 1>> \o EncodeTokens(deployed.res.params)
    /\ Len(deployed.res.params) = 2
    /\ d.pc = "built"

\* C17: with the task scheduled fairly and a client that in the end answers
\* with a receipt, send() reaches a result; and it reaches one after the
\* submission only on a receipt: while the client gives none, it polls on.
C17_Termination ==
    /\ (d.tx_hash # None) ~> (d.pc = "done")
    /\ [](d.pc = "done" /\ d.tx_hash # None => GotReceipt)
    /\ []((d.replies # <<>> /\ ~GotReceipt) =>
             d.pc \in {"delay", "await_delay", "loop", "await_receipt"})

C17_Witness ==
    /\ d.pc = "done"
    /\ d.tx_hash # None
    /\ FailedPolls(d) = MaxPolls
    /\ d.result.kind \in {"Contract", "Err"}

====
